---- MODULE Spec2Model ----
(***************************************************************************)
(* Lexer and recursive-descent parser of the small GCL dialect in          *)
(* src/app.py.  Source text and token values are TLA+ strings; offsets are *)
(* 0-based as in Python, so character i of a string s is SubSeq(s,i+1,i+1).*)
(***************************************************************************)
EXTENDS Integers, Sequences, FiniteSets, TLC

VARIABLES
    code,      \* lex: the source string being scanned
    pos,       \* lex: scan offset (0-based)
    line,      \* lex: current line
    col,       \* lex: current column
    tokens,    \* lex: emitted tokens
    pc,        \* lex: "scan", then "lexed"; route_parse: "request", then "response";
               \* parse_expr: "expr", then "parsed"
    input,     \* token list handed to parse_tokens / Parser
    outcome    \* result of the parser call, None before it ran

vars == <<code, pos, line, col, tokens, pc, input, outcome>>

None == [none |-> TRUE]

(***************************************************************************)
(* Bounds of the model.                                                    *)
(***************************************************************************)
MaxSrcLen == 4
MaxPhrases == 3
MaxExprLen == 5

(***************************************************************************)
(* Characters.  The character classes are those of Python's re on the      *)
(* ASCII range.                                                            *)
(***************************************************************************)
Letters ==
    {"a","b","c","d","e","f","g","h","i","j","k","l","m",
     "n","o","p","q","r","s","t","u","v","w","x","y","z",
     "A","B","C","D","E","F","G","H","I","J","K","L","M",
     "N","O","P","Q","R","S","T","U","V","W","X","Y","Z"}
Digits == {"0","1","2","3","4","5","6","7","8","9"}

IdentStartChars == Letters \cup {"_"}
IdentPartChars == Letters \cup Digits \cup {"_"}
WordChars == Letters \cup Digits \cup {"_"}
SpaceChars == {" ", "\t", "\r"}

IsDigit(c) == c \in Digits                 \* \d
IsIdentStart(c) == c \in IdentStartChars   \* [A-Za-z_]
IsIdentPart(c) == c \in IdentPartChars     \* [A-Za-z0-9_]
IsWord(c) == c \in WordChars               \* \w, as \b reads it
IsSpace(c) == c \in SpaceChars             \* [ \t\r]

\* code[i] for a 0-based offset i; "" outside the string
At(s, i) == IF i >= 0 /\ i < Len(s) THEN SubSeq(s, i + 1, i + 1) ELSE ""
\* code[i:j]
Slice(s, i, j) == IF i >= j THEN "" ELSE SubSeq(s, i + 1, IF j < Len(s) THEN j ELSE Len(s))
StartsWith(s, i, w) == Slice(s, i, i + Len(w)) = w

\* regex \b at offset i: exactly one side is a word character
WordBoundary(s, i) == IsWord(At(s, i - 1)) # IsWord(At(s, i))

\* end offset of the longest run of characters of the class cs starting at i (greedy * and +)
RECURSIVE RunEnd(_, _, _)
RunEnd(s, i, cs) == IF i < Len(s) /\ At(s, i) \in cs THEN RunEnd(s, i + 1, cs) ELSE i

\* end offset of [^\n]* starting at i
RECURSIVE LineEnd(_, _)
LineEnd(s, i) == IF i < Len(s) /\ At(s, i) # "\n" THEN LineEnd(s, i + 1) ELSE i

KEYWORDS == <<"if", "then", "else", "fi", "do", "od">>
OPS == <<"==", "<=", ">=", "!=", "+", "-", "*", "/", "<", ">">>

\* end offset of the first word of the ordered alternation ws, from the k-th on, that matches
\* at i and, when bnd, is followed by a \b; -1 if none
RECURSIVE FirstAlt(_, _, _, _, _)
FirstAlt(s, i, ws, k, bnd) ==
    IF k > Len(ws) THEN -1
    ELSE IF StartsWith(s, i, ws[k]) /\ (bnd => WordBoundary(s, i + Len(ws[k])))
    THEN i + Len(ws[k])
    ELSE FirstAlt(s, i, ws, k + 1, bnd)

\* KEYWORD  \b(if|then|else|fi|do|od)\b
KeywordEnd(s, i) ==
    IF WordBoundary(s, i) THEN FirstAlt(s, i, KEYWORDS, 1, TRUE) ELSE -1

\* the longest k in lo..hi with a \b at k, -1 if none
RECURSIVE LastBoundary(_, _, _)
LastBoundary(s, lo, hi) ==
    IF hi < lo THEN -1 ELSE IF WordBoundary(s, hi) THEN hi ELSE LastBoundary(s, lo, hi - 1)

\* NUMBER  \b\d+\b : the greedy digit run backtracks to the longest prefix ending at a \b
NumberEnd(s, i) ==
    IF WordBoundary(s, i) /\ IsDigit(At(s, i))
    THEN LastBoundary(s, i + 1, RunEnd(s, i, Digits))
    ELSE -1

\* TOKEN_SPECS: the end offset of the match of each pattern at offset i, -1 when it does
\* not match there
CommentEnd(s, i) == IF StartsWith(s, i, "//") THEN LineEnd(s, i + 2) ELSE -1
NewlineEnd(s, i) == IF At(s, i) = "\n" THEN i + 1 ELSE -1
WhitespaceEnd(s, i) == IF IsSpace(At(s, i)) THEN RunEnd(s, i, SpaceChars) ELSE -1
ArrowEnd(s, i) == IF StartsWith(s, i, "->") THEN i + 2 ELSE -1
AssignEnd(s, i) == IF StartsWith(s, i, ":=") THEN i + 2 ELSE -1
OpEnd(s, i) == FirstAlt(s, i, OPS, 1, FALSE)
CharEnd(s, i, c) == IF At(s, i) = c THEN i + 1 ELSE -1
IdentEnd(s, i) == IF IsIdentStart(At(s, i)) THEN RunEnd(s, i + 1, IdentPartChars) ELSE -1
UnknownEnd(s, i) == IF i < Len(s) /\ At(s, i) # "\n" THEN i + 1 ELSE -1

\* one alternative of the master regex: it wins if it matches, else the rest is tried
Alt(kind, e, rest) == IF e # -1 THEN [kind |-> kind, end |-> e] ELSE rest

\* master_regex.match(code, pos): the first alternative, in the declaration order of
\* TOKEN_SPECS, that matches at offset i
master_regex(s, i) ==
    Alt("COMMENT", CommentEnd(s, i),
    Alt("NEWLINE", NewlineEnd(s, i),
    Alt("WHITESPACE", WhitespaceEnd(s, i),
    Alt("ARROW", ArrowEnd(s, i),
    Alt("ASSIGN", AssignEnd(s, i),
    Alt("OP", OpEnd(s, i),
    Alt("LPAREN", CharEnd(s, i, "("),
    Alt("RPAREN", CharEnd(s, i, ")"),
    Alt("SEMI", CharEnd(s, i, ";"),
    Alt("BAR", CharEnd(s, i, "|"),
    Alt("KEYWORD", KeywordEnd(s, i),
    Alt("NUMBER", NumberEnd(s, i),
    Alt("IDENT", IdentEnd(s, i),
    Alt("UNKNOWN", UnknownEnd(s, i), None))))))))))))))

Token(type, value, l, c, index) ==
    [type |-> type, value |-> value, line |-> l, col |-> c, index |-> index]

\* a scan that forgets to reset the column at a newline
ColAfterNewlineMut(c) == c + 1
\* col = 1 after a NEWLINE match
ColAfterNewline(c) == 1

\* a scan that forgets to advance past the match
PosAfterMatchMut(m, p) == p
\* pos = m.end()
PosAfterMatch(m, p) == m.end

(***************************************************************************)
(* lex.  LexIter is one iteration of the scan loop on the locals           *)
(* pos, line, col, tokens; lex runs the loop to its end.                   *)
(***************************************************************************)
LexIter(s, st) ==
    LET m == master_regex(s, st.pos) IN
    IF m = None
    THEN [pos |-> st.pos + 1, line |-> st.line, col |-> st.col + 1,
          tokens |-> Append(st.tokens, Token("ERROR", At(s, st.pos), st.line, st.col, st.pos))]
    ELSE LET kind == m.kind
             value == Slice(s, st.pos, m.end)
             start == st.pos
             after == PosAfterMatch(m, st.pos)
         IN CASE kind = "NEWLINE" ->
                   [pos |-> after, line |-> st.line + 1,
                    col |-> ColAfterNewline(st.col), tokens |-> st.tokens]
              [] kind \in {"WHITESPACE", "COMMENT"} ->
                   [pos |-> after, line |-> st.line, col |-> st.col + Len(value),
                    tokens |-> st.tokens]
              [] kind = "UNKNOWN" ->
                   [pos |-> after, line |-> st.line, col |-> st.col + Len(value),
                    tokens |-> Append(st.tokens, Token("ERROR", value, st.line, st.col, start))]
              [] OTHER ->
                   [pos |-> after, line |-> st.line, col |-> st.col + Len(value),
                    tokens |-> Append(st.tokens, Token(kind, value, st.line, st.col, start))]

RECURSIVE lex_loop(_, _)
lex_loop(s, st) == IF st.pos < Len(s) THEN lex_loop(s, LexIter(s, st)) ELSE st.tokens

lex(s) == lex_loop(s, [pos |-> 0, line |-> 1, col |-> 1, tokens |-> <<>>])

\* one iteration of the while loop of lex
LexStep ==
    /\ pc = "scan"
    /\ pos < Len(code)
    /\ LET st == LexIter(code, [pos |-> pos, line |-> line, col |-> col, tokens |-> tokens])
       IN /\ pos' = st.pos
          /\ line' = st.line
          /\ col' = st.col
          /\ tokens' = st.tokens
    /\ UNCHANGED <<code, pc, input, outcome>>

\* the loop condition fails: lex returns tokens
LexReturn ==
    /\ pc = "scan"
    /\ ~(pos < Len(code))
    /\ pc' = "lexed"
    /\ UNCHANGED <<code, pos, line, col, tokens, input, outcome>>

(***************************************************************************)
(* Source strings of the lexer's specification.                            *)
(***************************************************************************)
Alphabet == {"i", "f", "1", "\n", " ", "/", "@", "-", ">"}

RECURSIVE Strings(_)
Strings(n) ==
    IF n = 0 THEN {""}
    ELSE LET S == Strings(n - 1)
         IN S \cup {s \o c : s \in {t \in S : Len(t) = n - 1}, c \in Alphabet}

InitLex ==
    /\ code \in Strings(MaxSrcLen)
    /\ pos = 0
    /\ line = 1
    /\ col = 1
    /\ tokens = <<>>
    /\ pc = "scan"
    /\ input = <<>>
    /\ outcome = None

NextLex == LexStep \/ LexReturn

SpecLex == InitLex /\ [][NextLex]_vars

(***************************************************************************)
(* Properties of lex (SpecLex).                                            *)
(***************************************************************************)
TokEnd(t) == t.index + Len(t.value)

\* offset i lies in the span of an emitted token
Covered(i) == \E k \in 1..Len(tokens) : tokens[k].index <= i /\ i < TokEnd(tokens[k])

\* offset i is a newline, a blank, or lies in a // comment that starts outside every token
Skippable(i) ==
    \/ At(code, i) \in {"\n", " ", "\t", "\r"}
    \/ \E j \in 0..i : /\ StartsWith(code, j, "//")
                       /\ ~Covered(j)
                       /\ \A k \in j..i : At(code, k) # "\n"

\* the emitted spans are the source text, in order and disjoint, within the scanned prefix,
\* and what lies between them in the scanned prefix is skipped text
SpansCover ==
    /\ \A k \in 1..Len(tokens) :
         /\ Len(tokens[k].value) >= 1
         /\ Slice(code, tokens[k].index, TokEnd(tokens[k])) = tokens[k].value
         /\ TokEnd(tokens[k]) <= pos
         /\ k > 1 => TokEnd(tokens[k - 1]) <= tokens[k].index
    /\ \A i \in 0..(pos - 1) : Covered(i) \/ Skippable(i)

\* C1: lex terminates and never fails: every iteration of the scan loop consumes at least
\* one character and stays within the source, so the loop ends after at most len(source)
\* iterations; it returns with pos = len(source), and the spans of the emitted tokens together with
\* the skipped newline/whitespace/comment text are contiguous, disjoint and cover the
\* scanned source exactly.
C1_LexCoversSource ==
    /\ 0 <= pos /\ pos <= Len(code)
    /\ pc \in {"scan", "lexed"}
    /\ pc = "lexed" => pos = Len(code)
    /\ SpansCover
    /\ (pc = "scan" /\ pos < Len(code)) =>
         LET st == LexIter(code, [pos |-> pos, line |-> line, col |-> col, tokens |-> tokens])
         IN st.pos > pos /\ st.pos <= Len(code)

\* lex returned on a source with an emitted token, an ERROR token and skipped text
C1_Witness ==
    /\ pc = "lexed"
    /\ Len(code) >= 3
    /\ \E k \in 1..Len(tokens) : tokens[k].type = "ERROR"
    /\ \E k \in 1..Len(tokens) : tokens[k].type # "ERROR"
    /\ \E i \in 0..(Len(code) - 1) : ~Covered(i) /\ At(code, i) = "/"

NewlinesBefore(i) == {j \in 0..(i - 1) : At(code, j) = "\n"}

\* offset of the last "\n" before offset i, -1 when there is none
LastNewlineBefore(i) ==
    IF NewlinesBefore(i) = {} THEN -1
    ELSE CHOOSE j \in NewlinesBefore(i) : \A k \in NewlinesBefore(i) : k <= j

\* C4: for every emitted token (ERROR tokens included) index is the offset of the token's
\* first character and strictly greater than the previous token's index, line is 1 plus
\* the number of newlines before index, and col is index minus the offset of the last
\* newline before index (index + 1 when there is none).
C4_TokenPositions ==
    \A k \in 1..Len(tokens) :
        LET t == tokens[k] IN
        /\ Slice(code, t.index, TokEnd(t)) = t.value
        /\ k > 1 => tokens[k - 1].index < t.index
        /\ t.line = 1 + Cardinality(NewlinesBefore(t.index))
        /\ t.col = t.index - LastNewlineBefore(t.index)

\* lex returned a token that sits on the second line, after skipped text on that line
C4_Witness ==
    /\ pc = "lexed"
    /\ \E k \in 1..Len(tokens) : tokens[k].line = 2 /\ tokens[k].col >= 2
    /\ \E k \in 1..Len(tokens) : tokens[k].line = 1 /\ tokens[k].type = "ERROR"

KeywordSet == {KEYWORDS[k] : k \in 1..Len(KEYWORDS)}

\* C5: lex never emits an IDENT token whose text is a keyword, and never emits a KEYWORD
\* token next to a letter, digit or underscore (whole-word matching), whatever characters
\* precede or follow.
C5_KeywordsNeverIdent ==
    \A k \in 1..Len(tokens) :
        LET t == tokens[k] IN
        /\ t.type = "IDENT" => t.value \notin KeywordSet
        /\ t.type = "KEYWORD" =>
             /\ t.value \in KeywordSet
             /\ ~IsIdentPart(At(code, t.index - 1))
             /\ ~IsIdentPart(At(code, TokEnd(t)))

(***************************************************************************)
(* Parser.  Every parse method is an operator of the token list and the    *)
(* cursor self.pos; it returns Ok(node, pos') or, where the method raises  *)
(* ParseError(msg, token), Err(msg, token, pos).                           *)
(***************************************************************************)
Ok(node, p) == [ok |-> TRUE, node |-> node, pos |-> p]
Err(msg, tok, p) == [ok |-> FALSE, msg |-> msg, token |-> tok, pos |-> p]

EOF == [type |-> "EOF", value |-> "", line |-> -1, col |-> -1]

NoArg == ""

DigitStr == <<"0", "1", "2", "3", "4", "5", "6", "7", "8", "9">>

\* int(tok["value"]) of a decimal digit string
RECURSIVE int(_)
int(s) ==
    IF Len(s) = 0 THEN 0
    ELSE LET c == At(s, Len(s) - 1)
             d == CHOOSE k \in 0..9 : DigitStr[k + 1] = c
         IN int(Slice(s, 0, Len(s) - 1)) * 10 + d

peek(toks, p) == IF p < Len(toks) THEN toks[p + 1] ELSE EOF

\* an omitted expected_type / expected_value is passed as NoArg: the code tests the
\* arguments for truth, and the empty string is as false as the default None
consume(toks, p, expected_type, expected_value) ==
    LET tok == peek(toks, p) IN
    IF expected_type # NoArg /\ tok.type # expected_type
    THEN Err("Expected token type " \o expected_type \o " but found " \o tok.type
                 \o " ('" \o tok.value \o "')", tok, p)
    ELSE IF expected_value # NoArg /\ tok.value # expected_value
    THEN Err("Expected token value " \o expected_value \o " but found " \o tok.value, tok, p)
    ELSE Ok(tok, p + 1)

BinaryOp(op, left, right) == [node |-> "BinaryOp", op |-> op, left |-> left, right |-> right]

\* a raised ParseError propagates through the caller; otherwise the caller goes on with
\* the callee's result
Try(r, Then(_)) == IF r.ok THEN Then(r) ELSE r

IsOp(tok, ops) == tok.type = "OP" /\ tok.value \in ops

RECURSIVE parse_stmt_list_loop(_, _, _), parse_stmt(_, _), parse_if(_, _), parse_do(_, _),
          parse_guard_list(_, _), parse_guard_list_loop(_, _, _), parse_guard(_, _),
          parse_assignment(_, _), parse_expr(_, _),
          parse_equality(_, _), parse_equality_loop(_, _, _),
          parse_relational(_, _), parse_relational_loop(_, _, _),
          parse_additive(_, _), parse_additive_loop(_, _, _),
          parse_term(_, _), parse_term_loop(_, _, _), parse_factor(_, _)

\* the optional semicolon after a statement: the cursor after it
skip_semi(toks, p) ==
    IF peek(toks, p).type = "SEMI" THEN consume(toks, p, "SEMI", NoArg) ELSE Ok(None, p)

\* the while loop of parse_stmt_list, entered with the statements parsed so far
parse_stmt_list_loop(toks, p, stmts) ==
    IF peek(toks, p).type = "EOF" THEN Ok(stmts, p)
    ELSE IF peek(toks, p).type = "KEYWORD" /\ peek(toks, p).value \in {"fi", "od"}
    THEN Ok(stmts, p)
    ELSE IF peek(toks, p).type \notin {"KEYWORD", "IDENT"} THEN Ok(stmts, p)
    ELSE Try(parse_stmt(toks, p), LAMBDA stmt :
         Try(skip_semi(toks, stmt.pos), LAMBDA c :
         parse_stmt_list_loop(toks, c.pos, Append(stmts, stmt.node))))

parse_stmt_list(toks, p) == parse_stmt_list_loop(toks, p, <<>>)

parse_program(toks, p) ==
    Try(parse_stmt_list(toks, p), LAMBDA body :
    Ok([node |-> "Program", body |-> body.node], body.pos))

parse_stmt(toks, p) ==
    IF peek(toks, p).type = "KEYWORD" /\ peek(toks, p).value = "if" THEN parse_if(toks, p)
    ELSE IF peek(toks, p).type = "KEYWORD" /\ peek(toks, p).value = "do" THEN parse_do(toks, p)
    ELSE IF peek(toks, p).type = "IDENT" THEN parse_assignment(toks, p)
    ELSE Err("Unexpected token in statement: " \o peek(toks, p).type
                 \o " '" \o peek(toks, p).value \o "'", peek(toks, p), p)

\* a parse_if that raises its error without the offending token
parse_ifMut(toks, p) ==
    Try(consume(toks, p, "KEYWORD", "if"), LAMBDA c :
    Try(parse_guard_list(toks, c.pos), LAMBDA guards :
    IF peek(toks, guards.pos).type = "KEYWORD" /\ peek(toks, guards.pos).value = "fi"
    THEN Try(consume(toks, guards.pos, "KEYWORD", "fi"), LAMBDA e :
         Ok([node |-> "If", guards |-> guards.node], e.pos))
    ELSE Err("Expected 'fi' to close 'if'", None, guards.pos)))

parse_if(toks, p) ==
    Try(consume(toks, p, "KEYWORD", "if"), LAMBDA c :
    Try(parse_guard_list(toks, c.pos), LAMBDA guards :
    IF peek(toks, guards.pos).type = "KEYWORD" /\ peek(toks, guards.pos).value = "fi"
    THEN Try(consume(toks, guards.pos, "KEYWORD", "fi"), LAMBDA e :
         Ok([node |-> "If", guards |-> guards.node], e.pos))
    ELSE Err("Expected 'fi' to close 'if'", peek(toks, guards.pos), guards.pos)))

parse_do(toks, p) ==
    Try(consume(toks, p, "KEYWORD", "do"), LAMBDA c :
    Try(parse_guard_list(toks, c.pos), LAMBDA guards :
    IF peek(toks, guards.pos).type = "KEYWORD" /\ peek(toks, guards.pos).value = "od"
    THEN Try(consume(toks, guards.pos, "KEYWORD", "od"), LAMBDA e :
         Ok([node |-> "Do", guards |-> guards.node], e.pos))
    ELSE Err("Expected 'od' to close 'do'", peek(toks, guards.pos), guards.pos)))

\* the while loop of parse_guard_list
parse_guard_list_loop(toks, p, guards) ==
    IF peek(toks, p).type = "BAR"
    THEN Try(consume(toks, p, "BAR", NoArg), LAMBDA c :
         Try(parse_guard(toks, c.pos), LAMBDA g :
         parse_guard_list_loop(toks, g.pos, Append(guards, g.node))))
    ELSE Ok(guards, p)

\* a parse_guard_list that takes a closing keyword for an empty guard list
parse_guard_listMut(toks, p) ==
    IF peek(toks, p).type = "KEYWORD" /\ peek(toks, p).value \in {"fi", "od"}
    THEN Ok(<<>>, p)
    ELSE Try(parse_guard(toks, p), LAMBDA g :
         parse_guard_list_loop(toks, g.pos, <<g.node>>))

parse_guard_list(toks, p) ==
    Try(parse_guard(toks, p), LAMBDA g :
    parse_guard_list_loop(toks, g.pos, <<g.node>>))

parse_guard(toks, p) ==
    Try(parse_expr(toks, p), LAMBDA cond :
    IF peek(toks, cond.pos).type = "ARROW"
    THEN Try(consume(toks, cond.pos, "ARROW", NoArg), LAMBDA c :
         Try(parse_stmt_list(toks, c.pos), LAMBDA body :
         Ok([node |-> "Guard", cond |-> cond.node, body |-> body.node], body.pos)))
    ELSE Err("Expected '->' in guard", peek(toks, cond.pos), cond.pos))

parse_assignment(toks, p) ==
    Try(consume(toks, p, "IDENT", NoArg), LAMBDA ident :
    IF peek(toks, ident.pos).type = "ASSIGN"
    THEN Try(consume(toks, ident.pos, "ASSIGN", NoArg), LAMBDA c :
         Try(parse_expr(toks, c.pos), LAMBDA expr :
         Ok([node |-> "Assign", target |-> ident.node.value, expr |-> expr.node], expr.pos)))
    ELSE Err("Expected ':=' in assignment", peek(toks, ident.pos), ident.pos))

parse_expr(toks, p) == parse_equality(toks, p)

parse_equality_loop(toks, p, left) ==
    IF IsOp(peek(toks, p), {"==", "!="})
    THEN Try(consume(toks, p, "OP", NoArg), LAMBDA op :
         Try(parse_relational(toks, op.pos), LAMBDA right :
         parse_equality_loop(toks, right.pos, BinaryOp(op.node.value, left, right.node))))
    ELSE Ok(left, p)

parse_equality(toks, p) ==
    Try(parse_relational(toks, p), LAMBDA left :
    parse_equality_loop(toks, left.pos, left.node))

parse_relational_loop(toks, p, left) ==
    IF IsOp(peek(toks, p), {"<", ">", "<=", ">="})
    THEN Try(consume(toks, p, "OP", NoArg), LAMBDA op :
         Try(parse_additive(toks, op.pos), LAMBDA right :
         parse_relational_loop(toks, right.pos, BinaryOp(op.node.value, left, right.node))))
    ELSE Ok(left, p)

parse_relational(toks, p) ==
    Try(parse_additive(toks, p), LAMBDA left :
    parse_relational_loop(toks, left.pos, left.node))

parse_additive_loop(toks, p, left) ==
    IF IsOp(peek(toks, p), {"+", "-"})
    THEN Try(consume(toks, p, "OP", NoArg), LAMBDA op :
         Try(parse_term(toks, op.pos), LAMBDA right :
         parse_additive_loop(toks, right.pos, BinaryOp(op.node.value, left, right.node))))
    ELSE Ok(left, p)

\* a parse_additive that recurses on its right operand, nesting to the right
parse_additiveMut(toks, p) ==
    Try(parse_term(toks, p), LAMBDA left :
    IF IsOp(peek(toks, left.pos), {"+", "-"})
    THEN Try(consume(toks, left.pos, "OP", NoArg), LAMBDA op :
         Try(parse_additive(toks, op.pos), LAMBDA right :
         Ok(BinaryOp(op.node.value, left.node, right.node), right.pos)))
    ELSE left)

parse_additive(toks, p) ==
    Try(parse_term(toks, p), LAMBDA left :
    parse_additive_loop(toks, left.pos, left.node))

parse_term_loop(toks, p, left) ==
    IF IsOp(peek(toks, p), {"*", "/"})
    THEN Try(consume(toks, p, "OP", NoArg), LAMBDA op :
         Try(parse_factor(toks, op.pos), LAMBDA right :
         parse_term_loop(toks, right.pos, BinaryOp(op.node.value, left, right.node))))
    ELSE Ok(left, p)

parse_term(toks, p) ==
    Try(parse_factor(toks, p), LAMBDA left :
    parse_term_loop(toks, left.pos, left.node))

parse_factor(toks, p) ==
    IF peek(toks, p).type = "NUMBER"
    THEN Try(consume(toks, p, "NUMBER", NoArg), LAMBDA c :
         Ok([node |-> "Number", value |-> int(c.node.value)], c.pos))
    ELSE IF peek(toks, p).type = "IDENT"
    THEN Try(consume(toks, p, "IDENT", NoArg), LAMBDA c :
         Ok([node |-> "Ident", name |-> c.node.value], c.pos))
    ELSE IF peek(toks, p).type = "LPAREN"
    THEN Try(consume(toks, p, "LPAREN", NoArg), LAMBDA c :
         Try(parse_expr(toks, c.pos), LAMBDA e :
         IF peek(toks, e.pos).type # "RPAREN"
         THEN Err("Missing closing ')'", peek(toks, e.pos), e.pos)
         ELSE Try(consume(toks, e.pos, "RPAREN", NoArg), LAMBDA d : Ok(e.node, d.pos))))
    ELSE Err("Unexpected token in factor", peek(toks, p), p)

\* the outcome of parse_tokens once Parser(toks).parse_program() returned or raised;
\* parser is the Parser object's cursor
Outcome(r) ==
    IF r.ok
    THEN [ok |-> TRUE, ast |-> r.node, parser |-> [pos |-> r.pos]]
    ELSE [ok |-> FALSE, msg |-> r.msg, token |-> r.token, parser |-> [pos |-> r.pos]]

\* a parse_tokens that reports the last ERROR token instead of the first
parse_tokensMut(tks) ==
    LET IsError(t) == t.type = "ERROR"
        lex_errors == SelectSeq(tks, IsError)
    IN IF Len(lex_errors) > 0
       THEN [ok |-> FALSE, msg |-> "Lexical errors present",
             token |-> lex_errors[Len(lex_errors)], parser |-> None]
       ELSE Outcome(parse_program(Append(tks, EOF), 0))

\* parse_tokens: the preflight for ERROR tokens, then Parser(toks).parse_program().
\* parser is None when no Parser was constructed.
parse_tokens(tks) ==
    LET IsError(t) == t.type = "ERROR"
        lex_errors == SelectSeq(tks, IsError)
    IN IF Len(lex_errors) > 0
       THEN [ok |-> FALSE, msg |-> "Lexical errors present", token |-> lex_errors[1],
             parser |-> None]
       ELSE Outcome(parse_program(Append(tks, EOF), 0))

(***************************************************************************)
(* route_parse: tokens = lex(code), then parse_tokens(tokens).  The source *)
(* texts are up to MaxPhrases phrases joined by single spaces.             *)
(***************************************************************************)
Phrases ==
    {"x := 1", "if x ->", "| x ->", "fi", "do x ->", "od", ";", "then", "@", "if", "do", ")",
     "if x -> fi"}

RECURSIVE Joined(_, _)
Joined(ws, n) ==
    IF n = 0 THEN {""}
    ELSE {IF s = "" THEN w ELSE s \o " " \o w : s \in Joined(ws, n - 1), w \in ws}

Texts(ws, n) == UNION {Joined(ws, k) : k \in 0..n}

route_parse ==
    /\ pc = "request"
    /\ input' = lex(code)
    /\ outcome' = parse_tokens(input')
    /\ pc' = "response"
    /\ UNCHANGED <<code, pos, line, col, tokens>>

InitParse ==
    /\ code \in Texts(Phrases, MaxPhrases)
    /\ pos = 0
    /\ line = 1
    /\ col = 1
    /\ tokens = <<>>
    /\ pc = "request"
    /\ input = <<>>
    /\ outcome = None

NextParse == route_parse

SpecParse == InitParse /\ [][NextParse]_vars

(***************************************************************************)
(* parse_expr applied at the start of the tokens of an expression text of  *)
(* up to MaxExprLen words.                                                 *)
(***************************************************************************)
ExprWords == {"1", "==", "<", "-", "*", "(", ")"}

ParseExpr ==
    /\ pc = "expr"
    /\ input' = lex(code)
    /\ outcome' = parse_expr(Append(input', EOF), 0)
    /\ pc' = "parsed"
    /\ UNCHANGED <<code, pos, line, col, tokens>>

InitExpr ==
    /\ code \in Texts(ExprWords, MaxExprLen)
    /\ pos = 0
    /\ line = 1
    /\ col = 1
    /\ tokens = <<>>
    /\ pc = "expr"
    /\ input = <<>>
    /\ outcome = None

NextExpr == ParseExpr

SpecExpr == InitExpr /\ [][NextExpr]_vars

(***************************************************************************)
(* Properties of parse_tokens (SpecParse).                                 *)
(***************************************************************************)
Responded == pc = "response"
HasLexError == \E k \in 1..Len(input) : input[k].type = "ERROR"
FirstLexError == input[CHOOSE k \in 1..Len(input) :
                         /\ input[k].type = "ERROR"
                         /\ \A j \in 1..(k - 1) : input[j].type # "ERROR"]

\* the Parser's token list for the lexed input
ParserTokens == Append(input, EOF)

IsKeyword(tok, words) == tok.type = "KEYWORD" /\ tok.value \in words
\* the tokens a statement can start with: keyword if, keyword do, an IDENT
IsStarter(tok) == IsKeyword(tok, {"if", "do"}) \/ tok.type = "IDENT"

\* C2: parse_tokens returns a Program only when the whole token sequence is derived by
\* program := stmt_list: on success the cursor is at the end-of-input sentinel.
C2_AcceptsOnlyWholeInput ==
    (Responded /\ outcome.ok) => outcome.parser.pos = Len(input)

\* C3: when the tokens hold an ERROR token, parse_tokens fails with the first ERROR token
\* in sequence order as the error's token, whatever the other tokens are, and no Parser
\* has moved a cursor or built a node.
C3_LexicalErrorFirst ==
    (Responded /\ HasLexError) =>
        /\ ~outcome.ok
        /\ outcome.msg = "Lexical errors present"
        /\ outcome.token = FirstLexError
        /\ outcome.parser = None
        /\ "ast" \notin DOMAIN outcome

\* a request whose tokens start with a keyword no statement starts with and hold two
\* ERROR tokens
C3_Witness ==
    /\ Responded
    /\ Len(input) = 3
    /\ IsKeyword(input[1], {"then"})
    /\ input[2].type = "ERROR"
    /\ input[3].type = "ERROR"
    /\ outcome.token = input[2]

TokenFields == {"type", "value", "line", "col"}

\* C7 as claimed: every error of parse_tokens carries a token with type, text, line and
\* column whose line and col are 1-based positions, errors at end of input included.
C7_ErrorTokenPositioned ==
    (Responded /\ ~outcome.ok) =>
        /\ TokenFields \subseteq DOMAIN outcome.token
        /\ outcome.token.line >= 1
        /\ outcome.token.col >= 1

\* C7 as the code has it: every error of parse_tokens carries a token with type, text,
\* line and column; it is either one of the lexed tokens, with 1-based line and col, or
\* the end-of-input sentinel, whose text is empty and whose line and col are -1.
C7_ErrorTokenOrSentinel ==
    (Responded /\ ~outcome.ok) =>
        /\ TokenFields \subseteq DOMAIN outcome.token
        /\ \/ /\ outcome.token.type = "EOF"
              /\ outcome.token.value = ""
              /\ outcome.token.line = -1
              /\ outcome.token.col = -1
           \/ /\ \E k \in 1..Len(input) : input[k] = outcome.token
              /\ outcome.token.line >= 1
              /\ outcome.token.col >= 1

\* an 'if' whose closing 'fi' is missing at the end of the input
C7_Witness ==
    /\ Responded
    /\ ~outcome.ok
    /\ outcome.msg = "Expected 'fi' to close 'if'"
    /\ outcome.token.type = "EOF"

Range(f) == {f[k] : k \in DOMAIN f}

\* the If and Do nodes of a statement list, nested ones included
RECURSIVE Constructs(_)
Constructs(stmts) ==
    UNION {{st} \cup UNION {Constructs(g.body) : g \in Range(st.guards)} :
             st \in {x \in Range(stmts) : x.node \in {"If", "Do"}}}

\* nesting depth of offset k relative to offset a: if/do opened minus fi/od closed in a..k-1
Depth(a, k) ==
    Cardinality({j \in a..(k - 1) : IsKeyword(input[j + 1], {"if", "do"})})
      - Cardinality({j \in a..(k - 1) : IsKeyword(input[j + 1], {"fi", "od"})})

\* the '|' tokens at offsets a..b-1 that belong to the construct whose guard list starts at a
OwnBars(a, b) == {k \in a..(b - 1) : input[k + 1].type = "BAR" /\ Depth(a, k) = 0}

\* C8: every If and Do node of a returned AST has at least one guard, each guard with a
\* condition and a statement list; a construct parsed from the tokens has exactly one more
\* guard than '|' tokens of its own; 'if' or 'do' directly followed by a closing keyword
\* is a parse error.
C8_GuardsNonEmpty ==
    (Responded /\ ~HasLexError) =>
        /\ outcome.ok =>
             \A n \in Constructs(outcome.ast.body) :
                 /\ Len(n.guards) >= 1
                 /\ \A g \in Range(n.guards) :
                        /\ g.node = "Guard"
                        /\ g.cond.node \in {"BinaryOp", "Number", "Ident"}
                        /\ DOMAIN g.body = 1..Len(g.body)
        /\ \A p \in 0..(Len(input) - 1) :
             IsKeyword(input[p + 1], {"if", "do"}) =>
                 LET r == parse_stmt(ParserTokens, p) IN
                 /\ r.ok =>
                      /\ r.node.node = (IF input[p + 1].value = "if" THEN "If" ELSE "Do")
                      /\ Len(r.node.guards) >= 1
                      /\ Len(r.node.guards) = 1 + Cardinality(OwnBars(p + 1, r.pos - 1))
                 /\ IsKeyword(peek(ParserTokens, p + 1), {"fi", "od"}) =>
                      /\ ~r.ok
                      /\ p = 0 => ~outcome.ok

\* a program that is one If with two guards
C8_Witness ==
    /\ Responded
    /\ outcome.ok
    /\ Len(outcome.ast.body) = 1
    /\ outcome.ast.body[1].node = "If"
    /\ Len(outcome.ast.body[1].guards) = 2
    /\ Cardinality(OwnBars(1, Len(input) - 1)) = 1

\* C9: in an accepted token sequence a statement is never directly followed, with no ';'
\* between, by the start of the next statement of its list.  A statement parsed at offset
\* p of the consumed tokens ends at r.pos; the list's loop goes on with the next
\* statement exactly when the token there can start one.
C9_StatementsSeparated ==
    (Responded /\ outcome.ok) =>
        \A p \in 0..(outcome.parser.pos - 1) :
            LET r == parse_stmt(ParserTokens, p) IN
            (IsStarter(input[p + 1]) /\ r.ok /\ r.pos <= outcome.parser.pos) =>
                ~IsStarter(peek(ParserTokens, r.pos))

OneStmt == <<[node |-> "Assign", target |-> "x", expr |-> [node |-> "Number", value |-> 1]]>>

\* C10: parse_stmt_list returns the statements it has, without consuming the lookahead and
\* without raising, whenever the lookahead is end of input, fi, od, or any token other
\* than keyword if, keyword do or an IDENT (the keywords then and else included).
C10_StmtListStops ==
    (Responded /\ ~HasLexError) =>
        \A p \in 0..Len(input) :
            ~IsStarter(peek(ParserTokens, p)) =>
                \A stmts \in {<<>>, OneStmt} :
                    LET r == parse_stmt_list_loop(ParserTokens, p, stmts) IN
                    r.ok /\ r.pos = p /\ r.node = stmts

(***************************************************************************)
(* Properties of parse_expr (SpecExpr).                                    *)
(***************************************************************************)
Tier(op) ==
    CASE op \in {"==", "!="} -> 1
      [] op \in {"<", ">", "<=", ">="} -> 2
      [] op \in {"+", "-"} -> 3
      [] op \in {"*", "/"} -> 4

\* parenthesis depth of the k-th token of ts
ParenDepth(ts, k) ==
    Cardinality({j \in 1..(k - 1) : ts[j].type = "LPAREN"})
      - Cardinality({j \in 1..(k - 1) : ts[j].type = "RPAREN"})

\* the operators of tier t outside every parenthesis
TopOps(ts, t) ==
    {k \in 1..Len(ts) : ts[k].type = "OP" /\ Tier(ts[k].value) = t /\ ParenDepth(ts, k) = 0}

Invalid == [node |-> "Invalid"]

\* the tree of the four-tier grammar for the tokens of one expression: split at the last
\* operator of the lowest tier outside parentheses; else strip the enclosing parentheses;
\* else a single operand
RECURSIVE RefTree(_)
RefTree(ts) ==
    LET tiers == {t \in 1..4 : TopOps(ts, t) # {}} IN
    IF Len(ts) = 0 THEN Invalid
    ELSE IF tiers # {}
    THEN LET t == CHOOSE t \in tiers : \A u \in tiers : t <= u
             k == CHOOSE k \in TopOps(ts, t) : \A j \in TopOps(ts, t) : j <= k
         IN BinaryOp(ts[k].value, RefTree(SubSeq(ts, 1, k - 1)),
                     RefTree(SubSeq(ts, k + 1, Len(ts))))
    ELSE IF Len(ts) >= 3 /\ ts[1].type = "LPAREN" /\ ts[Len(ts)].type = "RPAREN"
    THEN RefTree(SubSeq(ts, 2, Len(ts) - 1))
    ELSE IF Len(ts) = 1 /\ ts[1].type = "NUMBER"
    THEN [node |-> "Number", value |-> int(ts[1].value)]
    ELSE IF Len(ts) = 1 /\ ts[1].type = "IDENT"
    THEN [node |-> "Ident", name |-> ts[1].value]
    ELSE Invalid

Values(ts) == [k \in 1..Len(ts) |-> ts[k].value]
One == [node |-> "Number", value |-> 1]

\* C6: the AST of every expression parse_expr accepts is the tree of the four-tier
\* grammar for the tokens it consumed: same-tier operators nest to the left, a
\* higher-tier operator binds tighter than a neighbouring lower-tier one, and a
\* parenthesised sub-expression is the operand itself.
C6_ExprTree ==
    pc = "parsed" =>
        /\ outcome.ok => outcome.node = RefTree(SubSeq(input, 1, outcome.pos))
        /\ Values(input) = <<"1", "-", "1", "-", "1">> =>
             outcome.ok /\ outcome.node = BinaryOp("-", BinaryOp("-", One, One), One)
        /\ Values(input) = <<"1", "-", "1", "*", "1">> =>
             outcome.ok /\ outcome.node = BinaryOp("-", One, BinaryOp("*", One, One))
        /\ Values(input) = <<"1", "*", "1", "-", "1">> =>
             outcome.ok /\ outcome.node = BinaryOp("-", BinaryOp("*", One, One), One)
        /\ Values(input) = <<"1", "==", "1", "<", "1">> =>
             outcome.ok /\ outcome.node = BinaryOp("==", One, BinaryOp("<", One, One))
        /\ Values(input) = <<"(", "1", ")">> => outcome.ok /\ outcome.node = One

\* 1 - 1 - 1 was parsed into the left-nested tree
C6_Witness ==
    /\ pc = "parsed"
    /\ Values(input) = <<"1", "-", "1", "-", "1">>
    /\ outcome.ok
    /\ outcome.pos = 5
    /\ outcome.node.left.node = "BinaryOp"

====
